---- MODULE Spec2Model ----
(***************************************************************************)
(* The bounded-concurrency batch pipelines of the repository:              *)
(*   search  src/search.py  process_entry / search / save_results / main   *)
(*   embed   src/embed.py   process_entry / embed / save_results / main    *)
(*   crawl   src/db.py      process_url / crawl_url / update_source_content*)
(*   expand  src/db.py      expand_task / expand_content / expand          *)
(* One asyncio event loop runs one task per work item plus the driver.     *)
(* Every action below is one run of a coroutine from one suspension point  *)
(* (an await) to the next.                                                 *)
(***************************************************************************)
EXTENDS Integers, Naturals, Sequences, FiniteSets, TLC

(* ------------------------------ bounds --------------------------------- *)
MaxItems == 2       \* largest batch (len(data), len(rows))
MaxLimit == 2       \* largest concurrency limit tried
MaxInterval == 2    \* largest save_interval tried
MaxTries == 2       \* calls after which the service stops failing, for the
                    \* pipelines whose retry decorator has no stop

(* ------------------------- program constants --------------------------- *)
MaxAttempts == 6    \* stop_after_attempt(6)

Pipelines == {"search", "embed", "crawl", "expand"}
Bounded == {"search", "crawl"}          \* decorators with stop_after_attempt
Checkpointed == {"search", "embed"}     \* drivers with save_results

\* Kinds of exception one attempt can end in.
\*   transient : httpx timeout / connection error / HTTP 5xx / 429
\*   http4xx   : httpx.HTTPStatusError for a 4xx such as 401 (raise_for_status)
\*   other     : any non-httpx Exception (the ValueError for a missing
\*               BRAVE_API_KEY, a malformed input or response)
ErrKinds == {"transient", "http4xx", "other"}
FatalKinds == {"http4xx", "other"}

VARIABLES
    config,       \* pipeline, total_entries, max_concurrency, save_interval, api_key,
                  \* and the script the remote service follows in this run
    semaphore,    \* asyncio.Semaphore._value: the free slots
    tasks,        \* per work item: the executor coroutine's position and locals
    doneq,        \* asyncio.as_completed: finished tasks, in completion order
    results,      \* main: the pre-allocated results list
    nrec,         \* per slot, how many times main has assigned results[index]
    done_so_far,  \* main: done_so_far / the progress bar's count
    pc,           \* the driver's position
    files,        \* the partial and the final sink as a reader sees them
    nwrites,      \* per sink, how many save_results calls have written it
    db            \* rows the pipeline wrote to duckdb: <<id, content>>

vars == <<config, semaphore, tasks, doneq, results, nrec, done_so_far, pc, files, nwrites, db>>

pipeline == config.pipeline
total_entries == config.total_entries
max_concurrency == config.max_concurrency
save_interval == config.save_interval
api_key == config.api_key

Items == 0 .. (total_entries - 1)

(* ------------------------------ values --------------------------------- *)
\* Every value is a record of the same shape, so that any two compare.
None == [tag |-> "None", of |-> -1]
JsonNull == [tag |-> "null", of |-> -1]

\* What the remote capability can answer for the payload of item i.
CapabilityResults(p, i) ==
    CASE p = "search" -> {[tag |-> "SearchResults", of |-> i], [tag |-> "EmptyList", of |-> i]}
      [] p = "embed"  -> {[tag |-> "EmbeddingResult", of |-> i]}
      [] p = "crawl"  -> {[tag |-> "text", of |-> i]}
      [] p = "expand" -> {[tag |-> "content", of |-> i]}

\* Python truthiness of a value: None and the empty list are falsy; a dataclass
\* instance, a non-empty list, a vector and a string are truthy.
Truthy(v) == v.tag \notin {"None", "EmptyList"}

\* What the executor hands back: the tuple (index, result), or a bare None.
Tuple(i, v) == [shape |-> "tuple", index |-> i, result |-> v]
BareNone == [shape |-> "None", index |-> -1, result |-> None]
NoRet == [shape |-> "running", index |-> -1, result |-> None]


(* --------------------------- retry policy ------------------------------ *)
\* tenacity's retry predicate.  search, embed and expand_content give no
\* retry= argument, so every Exception is retried; crawl_url retries
\* httpx.HTTPError and httpx.RequestError, which a 4xx HTTPStatusError is.
ShouldRetry(p, kind) ==
    IF p = "crawl" THEN kind \in {"transient", "http4xx"} ELSE TRUE

\* tenacity's stop condition, evaluated after a failed attempt numbered n:
\* stop_after_attempt(6) for search and crawl_url, never for the other two.
StopOneEarly(p, n) == p \in Bounded /\ n >= MaxAttempts - 1
StopOneLate(p, n) == p \in Bounded /\ n >= MaxAttempts + 1
StopAfterAttempt(p, n) == p \in Bounded /\ n >= MaxAttempts

(* ----------------------- the remote capability ------------------------- *)
\* The failures attempt number n may end in.  search raises ValueError before
\* any request when BRAVE_API_KEY is unset; with the key set the failures
\* tried are the transient ones (its decorator treats every kind alike).  For
\* the decorators without a stop the service recovers after MaxTries calls.
Failures(p, n) ==
    CASE p = "search" -> IF api_key THEN {"transient"} ELSE {"other"}
      [] p = "crawl"  -> ErrKinds
      [] OTHER        -> IF n < MaxTries THEN {"transient", "http4xx"} ELSE {}

CanSucceed(p) == p = "search" => api_key

\* How the service answers the calls made for item i.  "free": any answer the
\* pipeline allows.  In the end-to-end scenario item 2 is answered with two
\* transient failures and then a result, item 4 with HTTP 401 every time, and
\* every other item with a result at once.
Script(i) ==
    IF config.scenario = "e2e"
    THEN CASE i = 2 -> "transient_twice" [] i = 4 -> "unauthorized" [] OTHER -> "ok"
    ELSE "free"

AttemptCanSucceed(i) ==
    CASE Script(i) = "free" -> CanSucceed(pipeline)
      [] Script(i) = "ok" -> TRUE
      [] Script(i) = "transient_twice" -> tasks[i].attempt > 2
      [] Script(i) = "unauthorized" -> FALSE

AttemptFailures(i) ==
    CASE Script(i) = "free" -> Failures(pipeline, tasks[i].attempt)
      [] Script(i) = "ok" -> {}
      [] Script(i) = "transient_twice" -> IF tasks[i].attempt <= 2 THEN {"transient"} ELSE {}
      [] Script(i) = "unauthorized" -> {"http4xx"}

\* The results a successful call can bring; a scripted success brings hits.
Answers(i) ==
    {r \in CapabilityResults(pipeline, i) : Script(i) = "free" \/ r.tag # "EmptyList"}

(* ---------------------------- executors -------------------------------- *)
FreshTask == [st |-> "Pending", attempt |-> 0, retries |-> 0, nfail |-> 0,
              lastErr |-> "none", ret |-> NoRet]

\* asyncio.Semaphore.acquire returns at once iff a slot is free.
CanAcquireOffByOne(value) == value >= 0
CanAcquireStrict(value) == value > 1
CanAcquire(value) == value > 0

\* "async with semaphore" gives the slot back when its block is left, by
\* return or from the except branch (__aexit__); a retry sleeps inside the
\* block, so the sleep leaves the semaphore alone.
ReleasedNotOnExcept(value, exit) == IF exit = "return" THEN value + 1 ELSE value
ReleasedOnSleep(value, exit) == value + 1
Released(value, exit) == IF exit = "sleep" THEN value ELSE value + 1

\* tenacity sleeps, and makes a next attempt, only inside the call it wraps:
\* once the call has returned or raised there is nothing left to wake.
AsleepOrFailed(t) == t.st \in {"RetryWait", "Failed"}
Asleep(t) == t.st = "RetryWait"

\* The value the executor returns after a successful call.
SuccessValue(p, i, r) == IF p = "crawl" THEN BareNone ELSE Tuple(i, r)

\* The value the executor's except branch returns.
FailureValueBare(p, i) == BareNone
FailureValue(p, i) == IF p \in Checkpointed THEN Tuple(i, None) ELSE BareNone

\* async with semaphore: the executor takes a slot and starts attempt 1.
\* (Without BRAVE_API_KEY search raises before it awaits anything; InFlight
\* then stands for the attempt that is about to raise.)
Acquire(i) ==
    /\ tasks[i].st = "Pending"
    /\ CanAcquire(semaphore)
    /\ semaphore' = semaphore - 1
    /\ tasks' = [tasks EXCEPT ![i].st = "InFlight", ![i].attempt = 1]
    /\ UNCHANGED <<config, doneq, results, nrec, done_so_far, pc, files, nwrites, db>>

\* The awaited call returns: the executor returns its value, leaving the
\* async with block (which releases the slot), and the task is done.
CallSucceeds(i) ==
    /\ tasks[i].st = "InFlight"
    /\ AttemptCanSucceed(i)
    /\ \E r \in Answers(i) :
          /\ tasks' = [tasks EXCEPT ![i].st = "Succeeded",
                                    ![i].ret = SuccessValue(pipeline, i, r)]
          /\ db' = IF pipeline = "crawl" THEN db \cup {<<i, r>>} ELSE db
    /\ semaphore' = Released(semaphore, "return")
    /\ doneq' = Append(doneq, i)
    /\ UNCHANGED <<config, results, nrec, done_so_far, pc, files, nwrites>>

\* The attempt raises.  tenacity either logs and sleeps (before_sleep, then
\* the wait) or lets the exception out (RetryError after the last attempt, the
\* exception itself when it is not retried); the executor's except branch
\* then logs it and returns, releasing the slot.
CallFails(i) ==
    /\ tasks[i].st = "InFlight"
    /\ \E kind \in AttemptFailures(i) :
          IF ShouldRetry(pipeline, kind) /\ ~StopAfterAttempt(pipeline, tasks[i].attempt)
          THEN /\ tasks' = [tasks EXCEPT ![i].st = "RetryWait",
                                         ![i].nfail = @ + 1,
                                         ![i].retries = @ + 1,
                                         ![i].lastErr = kind]
               /\ semaphore' = Released(semaphore, "sleep")
               /\ UNCHANGED doneq
          ELSE /\ tasks' = [tasks EXCEPT ![i].st = "Failed",
                                         ![i].nfail = @ + 1,
                                         ![i].lastErr = kind,
                                         ![i].ret = FailureValue(pipeline, i)]
               /\ semaphore' = Released(semaphore, "except")
               /\ doneq' = Append(doneq, i)
    /\ UNCHANGED <<config, results, nrec, done_so_far, pc, files, nwrites, db>>

\* The backoff sleep ends and tenacity makes the next attempt.
RetryWake(i) ==
    /\ Asleep(tasks[i])
    /\ tasks' = [tasks EXCEPT ![i].st = "InFlight", ![i].attempt = @ + 1,
                              ![i].lastErr = "none"]
    /\ UNCHANGED <<config, semaphore, doneq, results, nrec, done_so_far, pc, files, nwrites, db>>

(* ------------------------------ sinks ---------------------------------- *)
\* A sink file as a reader finds it: not there yet, opened with mode "w"
\* (truncated, the text not yet written and flushed), or holding a whole array.
Absent == [state |-> "absent", slots |-> <<>>]
Truncated == [state |-> "truncated", slots |-> <<>>]
Complete(snapshot) == [state |-> "complete", slots |-> snapshot]

\* save_results: one slot of the JSON array.  search writes the list of the
\* asdict()s "if entry_results else None"; embed dumps the slot as it is.
Serialize(p, v) ==
    CASE v.tag = "None" -> JsonNull
      [] p = "search" -> IF Truthy(v) THEN [tag |-> "json_list", of |-> v.of] ELSE JsonNull
      [] OTHER -> [tag |-> "json_vector", of |-> v.of]

\* save_results: the whole array, one slot per entry of results.
SnapshotShort(p, res) == [i \in (DOMAIN res) \ {total_entries - 1} |-> Serialize(p, res[i])]
Snapshot(p, res) == [i \in DOMAIN res |-> Serialize(p, res[i])]

(* ------------------------------ driver --------------------------------- *)
\* What main stores in the slot: search the result itself, embed
\* "result.embedding if result else None".
Stored(p, v) ==
    IF p = "embed"
    THEN IF Truthy(v) THEN [tag |-> "vector", of |-> v.of] ELSE None
    ELSE v

\* "index, result = await task; results[index] = ...": the slot written.
SlotByCompletion(r, done) == done
SlotReused(r, done) == r.index % max_concurrency
SlotOf(r, done) == r.index

\* as_completed hands every finished task out once.
RestKeepsHead(q) == q
Rest(q) == Tail(q)

\* The partial save's condition, evaluated after done_so_far += 1.
ShouldCheckpointOnMultiple(done, interval) == done % interval = 0
ShouldCheckpoint(done, interval) == (done + 1) % interval = 0

\* Where main goes when it is not saving: the next completion, or, with the
\* loop exhausted, the final save.
AfterLoopOneEarly(done) == IF done >= total_entries - 1 THEN "open_final" ELSE "loop"
AfterLoop(done) == IF done = total_entries THEN "open_final" ELSE "loop"

\* main awaits save_results in line: it is back at the as_completed loop, and
\* takes the next finished task, only after the write has returned.
AtLoopOrSaving(at) == at \in {"loop", "open_partial", "write_partial"}
AtLoop(at) == at = "loop"

Target(at) == IF at \in {"open_partial", "write_partial", "saved_partial"}
              THEN "partial" ELSE "final"

\* search/embed main: one iteration of "for task in asyncio.as_completed(tasks)"
\* up to the next await.
MainRecord ==
    /\ pipeline \in Checkpointed
    /\ AtLoop(pc)
    /\ doneq # <<>>
    /\ LET r == tasks[Head(doneq)].ret
           slot == SlotOf(r, done_so_far)
       IN  /\ results' = [results EXCEPT ![slot] = Stored(pipeline, r.result)]
           /\ nrec' = [nrec EXCEPT ![slot] = @ + 1]
    /\ done_so_far' = done_so_far + 1
    /\ doneq' = Rest(doneq)
    /\ pc' = IF ShouldCheckpoint(done_so_far', save_interval)
             THEN "open_partial" ELSE AfterLoop(done_so_far')
    /\ UNCHANGED <<config, semaphore, tasks, files, nwrites, db>>

\* save_results: aiofiles.open(filename, "w") creates or truncates the file.
SaveOpen ==
    /\ pc \in {"open_partial", "open_final"}
    /\ files' = [files EXCEPT ![Target(pc)] = Truncated]
    /\ pc' = IF pc = "open_partial" THEN "write_partial" ELSE "write_final"
    /\ UNCHANGED <<config, semaphore, tasks, doneq, results, nrec, done_so_far, nwrites, db>>

\* save_results: f.write(json.dumps(...)) and the close on leaving the block.
SaveWrite ==
    /\ pc \in {"write_partial", "write_final"}
    /\ files' = [files EXCEPT ![Target(pc)] = Complete(Snapshot(pipeline, results))]
    /\ nwrites' = [nwrites EXCEPT ![Target(pc)] = @ + 1]
    /\ pc' = IF pc = "write_partial" THEN "saved_partial" ELSE "saved_final"
    /\ UNCHANGED <<config, semaphore, tasks, doneq, results, nrec, done_so_far, db>>

\* save_results returns (after its "Results saved" log line) and main goes on.
SaveDone ==
    /\ pc \in {"saved_partial", "saved_final"}
    /\ pc' = IF pc = "saved_partial" THEN AfterLoop(done_so_far) ELSE "done"
    /\ UNCHANGED <<config, semaphore, tasks, doneq, results, nrec, done_so_far, files, nwrites, db>>

\* update_source_content: "await task" for the next finished task; after the
\* last one con.commit().
UpdateAwait ==
    /\ pipeline = "crawl"
    /\ pc = "loop"
    /\ doneq # <<>>
    /\ done_so_far' = done_so_far + 1
    /\ doneq' = Rest(doneq)
    /\ pc' = IF done_so_far' = total_entries THEN "done" ELSE "loop"
    /\ UNCHANGED <<config, semaphore, tasks, results, nrec, files, nwrites, db>>

\* expand: "news_id, content = await task", then the INSERT.  Unpacking a
\* bare None raises TypeError out of expand.
ExpandInsert ==
    /\ pipeline = "expand"
    /\ pc = "loop"
    /\ doneq # <<>>
    /\ LET r == tasks[Head(doneq)].ret
       IN  IF r.shape = "tuple"
           THEN /\ db' = db \cup {<<r.index, r.result>>}
                /\ done_so_far' = done_so_far + 1
                /\ pc' = IF done_so_far' = total_entries THEN "done" ELSE "loop"
           ELSE /\ pc' = "crashed"
                /\ UNCHANGED <<db, done_so_far>>
    /\ doneq' = Rest(doneq)
    /\ UNCHANGED <<config, semaphore, tasks, results, nrec, files, nwrites>>

(* --------------------------- specification ----------------------------- *)
\* The batch configurations tried.  save_interval and BRAVE_API_KEY matter
\* only to the pipelines that read them.
Configs ==
    { c \in [pipeline : Pipelines, total_entries : 1 .. MaxItems,
             max_concurrency : 1 .. MaxLimit, save_interval : 1 .. MaxInterval,
             api_key : BOOLEAN, scenario : {"free"}] :
        /\ (c.pipeline \notin Checkpointed => c.save_interval = 1)
        /\ (c.pipeline # "search" => c.api_key) }

Init ==
    /\ config \in Configs
    /\ semaphore = max_concurrency
    /\ tasks = [i \in Items |-> FreshTask]
    /\ doneq = <<>>
    /\ results = [i \in Items |-> None]
    /\ nrec = [i \in Items |-> 0]
    /\ done_so_far = 0
    /\ pc = "loop"
    /\ files = [f \in {"partial", "final"} |-> Absent]
    /\ nwrites = [f \in {"partial", "final"} |-> 0]
    /\ db = {}

Next ==
    \/ \E i \in Items : Acquire(i)
    \/ \E i \in Items : CallSucceeds(i)
    \/ \E i \in Items : CallFails(i)
    \/ \E i \in Items : RetryWake(i)
    \/ MainRecord
    \/ SaveOpen
    \/ SaveWrite
    \/ SaveDone
    \/ UpdateAwait
    \/ ExpandInsert

Spec == Init /\ [][Next]_vars

\* The event loop runs every coroutine that is ready (a free slot is taken,
\* an ended sleep resumes, the driver goes on when it can), and every remote
\* call ends: with an answer, an error, or the client's timeout.
Respond == \E i \in Items : CallSucceeds(i) \/ CallFails(i)
Driver == MainRecord \/ SaveOpen \/ SaveWrite \/ SaveDone \/ UpdateAwait
Fairness ==
    /\ WF_vars(\E i \in Items : Acquire(i))
    /\ WF_vars(Respond)
    /\ WF_vars(\E i \in Items : RetryWake(i))
    /\ WF_vars(Driver)

\* The pipelines whose retry policy is bounded: search and crawl.
InitBounded == Init /\ pipeline \in Bounded
NextBounded ==
    \/ \E i \in Items : Acquire(i)
    \/ Respond
    \/ \E i \in Items : RetryWake(i)
    \/ Driver
SpecFair == InitBounded /\ [][NextBounded]_vars /\ Fairness

\* The end-to-end scenario: search over 5 items, concurrency 2, checkpoint
\* interval 2, the service scripted as in Script.
InitE2E ==
    /\ config = [pipeline |-> "search", total_entries |-> 5, max_concurrency |-> 2,
                 save_interval |-> 2, api_key |-> TRUE, scenario |-> "e2e"]
    /\ semaphore = max_concurrency
    /\ tasks = [i \in Items |-> FreshTask]
    /\ doneq = <<>>
    /\ results = [i \in Items |-> None]
    /\ nrec = [i \in Items |-> 0]
    /\ done_so_far = 0
    /\ pc = "loop"
    /\ files = [f \in {"partial", "final"} |-> Absent]
    /\ nwrites = [f \in {"partial", "final"} |-> 0]
    /\ db = {}

\* search.py alone: its executors and its main.
NextSearch ==
    \/ \E i \in Items : Acquire(i)
    \/ \E i \in Items : CallSucceeds(i)
    \/ \E i \in Items : CallFails(i)
    \/ \E i \in Items : RetryWake(i)
    \/ MainRecord
    \/ SaveOpen
    \/ SaveWrite
    \/ SaveDone

SpecE2E == InitE2E /\ [][NextSearch]_vars

(* ------------------------------ claims --------------------------------- *)
InFlight == {i \in Items : tasks[i].st = "InFlight"}
Finals == {"open_final", "write_final", "saved_final", "done"}

\* C1: in every reachable state of a batch with concurrency limit N, at most N
\* work items have a call in progress.
C1_ConcurrencyBound == Cardinality(InFlight) <= max_concurrency

\* The limit is reached while another item waits for a slot.
C1_Witness ==
    /\ Cardinality(InFlight) = max_concurrency
    /\ \E i \in Items : tasks[i].st = "Pending"

\* C2: when the final sink has been written, its slot i holds the (serialized)
\* outcome returned by the executor that was given item i, whatever the
\* completion order.
C2_OrderPreserved ==
    pc = "saved_final" =>
        \A i \in Items :
            /\ tasks[i].ret.index = i
            /\ tasks[i].ret.result.of \in {i, -1}
            /\ files["final"].slots[i] =
                   Serialize(pipeline, Stored(pipeline, tasks[i].ret.result))

\* The final sink of a batch whose item 1 was recorded before item 0 (the
\* partial snapshot shows it) and whose slots both hold results.
C2_Witness ==
    /\ pc = "saved_final"
    /\ total_entries = 2
    /\ files["partial"].state = "complete"
    /\ files["partial"].slots[0] = JsonNull
    /\ files["partial"].slots[1] # JsonNull
    /\ files["final"].slots[0] # JsonNull
    /\ files["final"].slots[1] # JsonNull

\* C3: no slot is recorded twice, and by the time of the final write every
\* slot has been recorded exactly once.
C3_ExactlyOnce ==
    /\ \A i \in Items : nrec[i] <= 1
    /\ (pipeline \in Checkpointed /\ pc \in Finals) => \A i \in Items : nrec[i] = 1

\* The final write is about to start for a batch of two, one item failed.
C3_Witness ==
    /\ pc = "open_final"
    /\ total_entries = 2
    /\ \E i \in Items : tasks[i].st = "Failed"
    /\ \A i \in Items : nrec[i] = 1

\* C4: a work item's terminal failure never aborts the batch.  The failing
\* executor returns (index, None) instead of raising; the driver never stops
\* on an exception, stops only with every outcome recorded, and then a failed
\* item's slot is None while every other item's slot holds its own outcome.
\* Stated for the search, embed and expand pipelines.
C4_FailureIsolated ==
    pipeline \in {"search", "embed", "expand"} =>
        /\ pc # "crashed"
        /\ \A i \in Items :
              tasks[i].st = "Failed" => tasks[i].ret = Tuple(i, None)
        /\ (~ENABLED Next) => pc = "done"
        /\ pc = "done" =>
              /\ done_so_far = total_entries
              /\ \A i \in Items : tasks[i].st \in {"Succeeded", "Failed"}
              /\ pipeline \in Checkpointed =>
                    \A i \in Items :
                        /\ nrec[i] = 1
                        /\ results[i] = Stored(pipeline, tasks[i].ret.result)
                        /\ (tasks[i].st = "Failed" => results[i] = None)
                        /\ (tasks[i].st = "Succeeded" => results[i].of = i)
              /\ pipeline = "expand" =>
                    \A i \in Items : <<i, tasks[i].ret.result>> \in db

\* A finished search batch of two in which one item failed and the other
\* succeeded and has its result in its slot.
C4_Witness ==
    /\ pc = "done"
    /\ pipeline = "search"
    /\ \E i, j \in Items :
          /\ tasks[i].st = "Failed" /\ results[i] = None
          /\ tasks[j].st = "Succeeded" /\ results[j].tag = "SearchResults"

\* C5: an item whose first call fails with a fatal (non-transient) error ends
\* as Failed after that one attempt, with no retry and no backoff wait.
C5_FatalShortCircuit ==
    \A i \in Items :
        (tasks[i].attempt = 1 /\ tasks[i].lastErr \in FatalKinds) =>
            (tasks[i].st = "Failed" /\ tasks[i].retries = 0)

\* C6: under the bounded policy an item whose call fails k < 6 times and then
\* succeeds ends Succeeded after exactly k retries and k + 1 calls, with the
\* capability's result in its slot; transient failures end an item only at
\* the cap.
C6_RetryThenSucceed ==
    pipeline \in Bounded =>
        \A i \in Items :
            /\ tasks[i].st = "Succeeded" =>
                  /\ tasks[i].nfail < MaxAttempts
                  /\ tasks[i].retries = tasks[i].nfail
                  /\ tasks[i].attempt = tasks[i].nfail + 1
                  /\ (pipeline = "search" /\ nrec[i] = 1) =>
                        (results[i] = tasks[i].ret.result /\ results[i].of = i)
                  /\ pipeline = "crawl" => \E row \in db : row[1] = i /\ row[2].of = i
            /\ (tasks[i].st = "Failed" /\ tasks[i].lastErr = "transient") =>
                  tasks[i].nfail = MaxAttempts
            /\ (tasks[i].st = "RetryWait" /\ tasks[i].lastErr = "transient") =>
                  tasks[i].nfail < MaxAttempts

\* A search (key set, so every failure was a transient one) that failed five
\* times, succeeded on the sixth call and has been recorded.
C6_Witness ==
    /\ pipeline = "search"
    /\ api_key
    /\ \E i \in Items :
          /\ tasks[i].st = "Succeeded"
          /\ tasks[i].nfail = MaxAttempts - 1
          /\ tasks[i].retries = MaxAttempts - 1
          /\ nrec[i] = 1
          /\ results[i].tag = "SearchResults"

\* C7: under the bounded policy no item makes more than 6 calls; an item whose
\* calls keep failing transiently stops after the 6th and ends Failed with a
\* None outcome.
C7_AttemptCap ==
    pipeline \in Bounded =>
        \A i \in Items :
            /\ tasks[i].attempt <= MaxAttempts
            /\ tasks[i].nfail <= MaxAttempts
            /\ tasks[i].st = "RetryWait" => tasks[i].attempt < MaxAttempts
            /\ (tasks[i].attempt = MaxAttempts /\ tasks[i].nfail = MaxAttempts) =>
                  /\ tasks[i].st = "Failed"
                  /\ tasks[i].ret.result = None
                  /\ (pipeline = "search" /\ nrec[i] = 1) => results[i] = None
                  /\ pipeline = "crawl" => ~\E row \in db : row[1] = i

\* A search whose six calls all failed transiently, recorded as None.
C7_Witness ==
    /\ pipeline = "search"
    /\ api_key
    /\ \E i \in Items :
          /\ tasks[i].st = "Failed"
          /\ tasks[i].attempt = MaxAttempts
          /\ tasks[i].lastErr = "transient"
          /\ nrec[i] = 1
          /\ results[i] = None

\* C8: after each completion the driver starts a partial save exactly when
\* the number of completed items is a multiple of the checkpoint interval.
C8_CheckpointCadence ==
    [][(pipeline \in Checkpointed /\ done_so_far' # done_so_far) =>
          ((pc' = "open_partial") <=> (done_so_far' % save_interval = 0))]_vars

\* The serialized outcome of item i, read off what its executor returned and
\* not off the results list: null for a failure and, as save_results writes
\* it, for a search that succeeded with an empty result list.
ExpectedJson(i) ==
    CASE tasks[i].st = "Failed" -> JsonNull
      [] pipeline = "search" ->
            IF tasks[i].ret.result.tag = "EmptyList"
            THEN JsonNull ELSE [tag |-> "json_list", of |-> i]
      [] OTHER -> [tag |-> "json_vector", of |-> i]

C10_AtomicSink == \A f \in DOMAIN files : files[f].state # "truncated"

\* C11: the final sink is written exactly once per batch, only after every
\* item's outcome has been recorded, by a write that leaves the partial sink
\* alone; and once the final write has begun the partial sink is never
\* written again.
C11_FinalOnce ==
    [][(pipeline \in Checkpointed) =>
          (/\ files'["final"] # files["final"] =>
                /\ \A i \in Items : nrec[i] = 1
                /\ done_so_far = total_entries
                /\ nwrites["final"] = 0
                /\ files'["partial"] = files["partial"]
           /\ nwrites'["final"] <= 1
           /\ nwrites'["final"] # nwrites["final"] => files'["final"].state = "complete"
           /\ files["final"].state # "absent" =>
                (files'["partial"] = files["partial"] /\ nwrites'["partial"] = nwrites["partial"])
           /\ pc' = "done" => (nwrites'["final"] = 1 /\ files'["final"].state = "complete"))]_vars

\* A finished batch of two: the partial sink was written during the loop and
\* the final sink once.
C11_Witness ==
    /\ pc = "done"
    /\ total_entries = 2
    /\ nwrites["final"] = 1
    /\ nwrites["partial"] >= 1
    /\ files["final"].state = "complete"

\* C12: in the final sink slot i is null if and only if item i ended as
\* Failed; a search that succeeded with an empty result list included, every
\* succeeded item has a non-null slot.
C12_NullIffFailed ==
    (pipeline \in Checkpointed /\ pc \in {"saved_final", "done"}) =>
        \A i \in Items :
            (files["final"].slots[i] = JsonNull) <=> (tasks[i].st = "Failed")

\* C13: with BRAVE_API_KEY unset the batch aborts before any work item is
\* dispatched: no executor takes a limiter slot, no outcome is recorded and
\* neither sink is written.
C13_PreflightAbort ==
    (pipeline = "search" /\ ~api_key) =>
        /\ semaphore = max_concurrency
        /\ \A i \in Items : tasks[i].st = "Pending" /\ nrec[i] = 0
        /\ \A f \in DOMAIN files : files[f].state = "absent" /\ nwrites[f] = 0

Holding == {i \in Items : tasks[i].st \in {"InFlight", "RetryWait"}}
Terminal == {i \in Items : tasks[i].st \in {"Succeeded", "Failed"}}
Held == max_concurrency - semaphore

\* C15: limiter slots are scoped.  Every acquisition is paired with exactly
\* one release on every exit path (success, failure after retries, failure
\* without retry), so the number of held slots is exactly the number of items
\* between their acquisition and their exit, never negative and never above
\* the limit, and it is 0 once every item is terminal.
C15_ScopedSlots ==
    /\ Held = Cardinality(Holding)
    /\ Held >= 0
    /\ Held <= max_concurrency
    /\ (Terminal = Items) => Held = 0

C15_Witness ==
    /\ Terminal = Items
    /\ Held = 0
    /\ \E i \in Items : tasks[i].st = "Failed" /\ tasks[i].retries > 0
    /\ \E i \in Items : tasks[i].st = "Failed" /\ tasks[i].retries = 0
                        /\ pipeline = "crawl"


\* The moves of one work item that the state machine allows in one step.
Moves ==
    { <<"Pending", "InFlight">>, <<"InFlight", "RetryWait">>,
      <<"RetryWait", "InFlight">>, <<"InFlight", "Succeeded">>,
      <<"InFlight", "Failed">> }

\* C16: each work item only moves along Pending -> InFlight ->
\* (RetryWait -> InFlight)* -> Succeeded | Failed.  No item leaves Pending
\* for anything but InFlight, RetryWait is entered only from InFlight and
\* only by a failed attempt, and a terminal item keeps its state and its
\* outcome for ever.
C16_StateMachine ==
    [][\A i \in Items :
          /\ tasks'[i].st # tasks[i].st =>
                <<tasks[i].st, tasks'[i].st>> \in Moves
          /\ tasks'[i].st = "RetryWait" /\ tasks[i].st # "RetryWait" =>
                tasks'[i].nfail = tasks[i].nfail + 1
          /\ tasks[i].st \in {"Succeeded", "Failed"} =>
                tasks'[i] = tasks[i]]_vars

\* An item that went through a retry wait and back before it ended, next to
\* one that ended at its first attempt.
C16_Witness ==
    /\ \E i \in Items : tasks[i].st = "Succeeded" /\ tasks[i].retries > 0
    /\ \E i \in Items : tasks[i].st = "Failed" /\ tasks[i].attempt = 1
    /\ pc = "done"


\* C17: under the bounded retry policy (search, crawl) and weak fairness of
\* the scheduler and of the remote answers, every batch terminates: every
\* item ends Succeeded or Failed, none is left waiting for a slot, and the
\* driver finishes, having written the final checkpoint where the pipeline
\* has one, whatever failures the capability produces.
C17_Terminates ==
    (pipeline \in Bounded) ~>
        /\ pc = "done"
        /\ Terminal = Items
        /\ semaphore = max_concurrency
        /\ pipeline \in Checkpointed => files["final"].state = "complete"

\* A finished search batch with more items than slots, one of which used up
\* all its attempts while the other waited for the slot.
C17_Witness ==
    /\ pipeline = "search"
    /\ pc = "done"
    /\ total_entries > max_concurrency
    /\ files["final"].state = "complete"
    /\ \E i \in Items : tasks[i].st = "Failed" /\ tasks[i].attempt = MaxAttempts


\* The driver is inside save_results: called, and the file not yet closed.
InWrite == {"open_partial", "write_partial", "open_final", "write_final"}

\* C18: at most one checkpoint write is in flight at any instant.  A write
\* starts only when no write is in flight and no sink is left half written;
\* while one is in flight the driver does nothing else (it records nothing
\* and starts no other write) until that write has finished; so at most one
\* sink is ever open for writing.  Executors are not held up by this.
C18_SingleWriter ==
    [][/\ (pc' \in {"open_partial", "open_final"} /\ pc' # pc) =>
              /\ pc \notin InWrite
              /\ \A f \in DOMAIN files : files[f].state # "truncated"
       /\ pc \in InWrite =>
              /\ results' = results /\ done_so_far' = done_so_far
              /\ pc' # pc =>
                    /\ Target(pc') = Target(pc)
                    /\ pc' \in {"write_partial", "write_final",
                                "saved_partial", "saved_final"}
       /\ Cardinality({f \in DOMAIN files : files'[f].state = "truncated"}) <= 1
       /\ \A f \in DOMAIN files : files'[f].state = "truncated" =>
              pc' \in InWrite /\ Target(pc') = f]_vars

\* A partial write is suspended with the sink open, while another item has
\* finished and waits for the driver to come back and record it.
C18_Witness ==
    /\ pc = "write_partial"
    /\ files["partial"].state = "truncated"
    /\ done_so_far = 1
    /\ doneq # <<>>


Sleeping == {i \in Items : tasks[i].st = "RetryWait"}

\* C19: an executor keeps its limiter slot through its whole retry sequence,
\* backoff waits included.  The items that are InFlight or in RetryWait are
\* never more than the limit, every sleeping item still counts against the
\* semaphore, and when those items fill the limit no Pending item can start,
\* even if none of them has a call in progress.
C19_SlotHeldThroughBackoff ==
    /\ Cardinality(Holding) <= max_concurrency
    /\ Cardinality(Sleeping) <= Held
    /\ Cardinality(Holding) = max_concurrency =>
          \A i \in Items : tasks[i].st = "Pending" => ~ENABLED Acquire(i)

\* Every slot is held by a sleeping item, no call is in progress, and an
\* item is still waiting to start.
C19_Witness ==
    /\ Sleeping # {}
    /\ Cardinality(Sleeping) = max_concurrency
    /\ InFlight = {}
    /\ \E i \in Items : tasks[i].st = "Pending" /\ ~ENABLED Acquire(i)


\* The slots of a sink that hold a result.
Filled(f) == {i \in DOMAIN files[f].slots : files[f].slots[i] # JsonNull}

\* C20: checkpoints are monotone.  Executors never write the ResultSet; a
\* recorded result is never changed afterwards; a sink written in full holds
\* the ResultSet as it is at that moment; and as long as a written sink
\* exists, each result it holds is the one the ResultSet still holds.  Hence
\* of any two completed writes the later one repeats every result of the
\* earlier one, and the final sink repeats those of the last partial one.
C20_Monotone ==
    [][(pipeline \in Checkpointed) =>
         (/\ tasks' # tasks => results' = results
          /\ \A i \in Items : results[i] # None => results'[i] = results[i]
          /\ \A f \in DOMAIN files :
                (files'[f] # files[f] /\ files'[f].state = "complete") =>
                    files'[f].slots = Snapshot(pipeline, results)
          /\ \A f \in DOMAIN files : files'[f].state = "complete" =>
                \A i \in DOMAIN files'[f].slots :
                    files'[f].slots[i] # JsonNull =>
                        files'[f].slots[i] = Serialize(pipeline, results'[i])
          /\ (files'["partial"].state = "complete" /\ files'["final"].state = "complete") =>
                \A i \in DOMAIN files'["partial"].slots :
                    files'["partial"].slots[i] # JsonNull =>
                        files'["final"].slots[i] = files'["partial"].slots[i])]_vars

\* Both sinks written, the final one holding a result more than the last
\* partial one.
C20_Witness ==
    /\ files["partial"].state = "complete"
    /\ files["final"].state = "complete"
    /\ files["partial"].slots # files["final"].slots
    /\ \E i \in Items : files["partial"].slots[i] # JsonNull

====
